---- MODULE Spec2Model ----
(***************************************************************************)
(* A model of inferb (src/main.c): inferring the value of a byte in memory *)
(* by cache timing analysis.  The state is that of one call of inferb():   *)
(* its locals, the heap blocks it has allocated, the data cache, the tick  *)
(* counter, and a log of the events of the current measurement round.      *)
(*                                                                         *)
(* Times.  timeElapsed() returns (ticks now - ticks at start) * rate with  *)
(* rate = numer/denom of the device's timebase.  The model keeps every     *)
(* time in units of 1/denom ns, i.e. as ticks * numer, which is exact and  *)
(* orders the sums as the nanosecond values do (denom is fixed for a run). *)
(* Rounding of the double arithmetic is not modelled.                      *)
(*                                                                         *)
(* Scaling.  The three tunables of the source that set the length of a run *)
(* (RETRIES_IF_ZERO 50, ITERATIONS 20, NUM_CACHE_LINES 256) are run at the *)
(* small values RetriesBound, IterationsBound and SlotsBound.              *)
(***************************************************************************)
EXTENDS Integers, Sequences, FiniteSets, TLC

VARIABLES
    pc,          \* position of inferb(): the statement about to run
    secret,      \* *addr, the byte in memory (theByte of main)
    tbi,         \* mach_timebase_info of the device: [numer, denom]
    mach_time,   \* mach_absolute_time(): the tick counter
    sumNull,     \* TRUE when calloc returned NULL for sum
    sum,         \* double sum[NUM_CACHE_LINES]
    bestIndex,   \* uint8_t bestIndex (Uninit until first assigned)
    best,        \* double best of the scan
    try,         \* loop counter of the retry loop
    iter,        \* loop counter of the iteration loop
    i,           \* loop counter of the timing loop
    array,       \* the probe array pointer of the current round
    live,        \* heap regions holding a block that was not released
    cache,       \* cache lines (address \div CACHE_LINE_SIZE) now in the data cache
    timer,       \* timer_t start of the current timed access
    elapsed,     \* value returned by the last timeElapsed() query of a timer that
                 \* is kept and queried again (as main does around inferb)
    addr,        \* address of the last access made through array
    start,       \* argument start of the last flush_cache_relaxed call
    len,         \* argument len of the last flush_cache_relaxed call
    hist,        \* events of the current measurement round, oldest first
    decisions,   \* the decision (bestIndex) of every attempt so far
    rounds,      \* measurement rounds completed so far
    allocFailed, \* some allocation of this call returned NULL
    ret          \* the value returned by inferb (Uninit until it returns)

vars == <<pc, secret, tbi, mach_time, sumNull, sum, bestIndex, best, try, iter, i,
          array, live, cache, timer, elapsed, addr, start, len, hist, decisions,
          rounds, allocFailed, ret>>

----------------------------------------------------------------------------
(* Constants of the source *)

CACHE_LINE_SIZE == 64

SPACING == 16 * 1024

UINT8_MAX == 255

\* float.h DBL_MAX: stands above every sum the model can reach.
DBL_MAX == 2147483647

NULL == 0

(* Bounds of the model *)

RetriesBound == 3
IterationsBound == 2
SlotsBound == 2
FastTicks == 1         \* ticks of a timed access served from the cache
SlowTicks == 2         \* ticks of a timed access served from memory
DecideSlots == 10      \* length of the synthetic sample vectors
MaxSample == 1         \* entries of the synthetic sample vectors are 0..MaxSample
MaxStart == 130        \* flush start addresses are 0..MaxStart
MaxFlushLen == 130     \* flush lengths are 0..MaxFlushLen
MaxBaseOffset == 64    \* layout base addresses are HeapStart + 0..MaxBaseOffset
MaxStartTick == 4      \* a kept timer is started at tick 0..MaxStartTick
MaxElapsedTicks == 10  \* and queried up to MaxElapsedTicks ticks later

RETRIES_IF_ZERO == RetriesBound
ITERATIONS == IterationsBound
NUM_CACHE_LINES == SlotsBound

ARRAY_SIZE == NUM_CACHE_LINES * SPACING

\* The value an uninitialised uint8_t local or a not yet returned result shows
\* in the model: outside 0..UINT8_MAX.
Uninit == UINT8_MAX + 1

Slots == 0 .. (NUM_CACHE_LINES - 1)

\* mach_timebase_info of the devices the program is built for (arm64 Apple
\* Silicon): 125/3 ns per tick.
Timebases == { [numer |-> 125, denom |-> 3] }

----------------------------------------------------------------------------
(* Memory layout and the data cache *)

LineOf(a) == a \div CACHE_LINE_SIZE

SlotAddr_noPadding(base, k) == base + k
\* &array[k].cacheLine
SlotAddr(base, k) == base + k * SPACING

SlotLines(base) == { LineOf(SlotAddr(base, k)) : k \in Slots }

\* Every cache line holding at least one byte of [s, s+l).
LinesTouching(s, l) == IF l = 0 THEN {} ELSE LineOf(s) .. LineOf(s + l - 1)

\* Passes of the loop of flush_cache_relaxed: pass k = 0, 1, ... has
\* addr = start + k * CACHE_LINE_SIZE and runs while addr < limit = start + len.
FlushPasses(l) == (l + CACHE_LINE_SIZE - 1) \div CACHE_LINE_SIZE

FlushIssued_alignedUp(s, l) ==
    LineOf(s + CACHE_LINE_SIZE - 1) .. (LineOf(s) + FlushPasses(l) - 1)
\* The lines the loop cleans and invalidates: pass k issues DC CIVAC on addr,
\* which acts on the line holding addr, LineOf(start) + k.
FlushIssued(s, l) == LineOf(s) .. (LineOf(s) + FlushPasses(l) - 1)

flush_cache_relaxed(c, s, l) == c \ FlushIssued(s, l)

\* The heap: region r can hold one probe array at any 16-byte aligned offset
\* below a cache line.
HeapStart == CACHE_LINE_SIZE * CACHE_LINE_SIZE
RegionStride == ARRAY_SIZE + CACHE_LINE_SIZE
RegionBase(r) == HeapStart + r * RegionStride
MallocOffsets == {0, 16}

\* malloc(ARRAY_SIZE): NULL, or a block in the lowest region not in use.
MallocResults(lv) ==
    {NULL} \cup { RegionBase(Cardinality(lv)) + off : off \in MallocOffsets }

----------------------------------------------------------------------------
(* The timer *)

\* startTimer(): the handle built from the tick counter and the timebase.
startTimer(now, tb) == [start |-> now, numer |-> tb.numer, denom |-> tb.denom]

timeElapsed_reversed(t, now) == (t.start - now) * t.numer
\* timeElapsed(): (now - t->start) * t->rate, in units of 1/denom ns.
timeElapsed(t, now) == (now - t.start) * t.numer

----------------------------------------------------------------------------
(* The decision *)

Less_orEqual(a, b) == a <= b
Less_inverted(a, b) == a > b
\* sum[i] < best
Less(a, b) == a < b

Uint8_signed(k) ==
    IF (k % (UINT8_MAX + 1)) > 127 THEN (k % (UINT8_MAX + 1)) - (UINT8_MAX + 1)
    ELSE k % (UINT8_MAX + 1)
\* The value an unsigned k has when stored in the uint8_t bestIndex.
Uint8(k) == k % (UINT8_MAX + 1)

\* The scan of lines 164-170 from index k on, over the first n entries of s.
RECURSIVE FindQuickest(_, _, _, _, _)
FindQuickest(s, n, k, bi, b) ==
    IF k >= n THEN [bestIndex |-> bi, best |-> b]
    ELSE IF Less(s[k], b)
         THEN FindQuickest(s, n, k + 1, Uint8(k), s[k])
         ELSE FindQuickest(s, n, k + 1, bi, b)

TryCond_offByOne(t) == t <= RETRIES_IF_ZERO
TryCond_reversed(t) == t > RETRIES_IF_ZERO
\* try < RETRIES_IF_ZERO
TryCond(t) == t < RETRIES_IF_ZERO

ShouldBreak_never(b) == FALSE
ShouldBreak_inverted(b) == b = 0
\* bestIndex != 0
ShouldBreak(b) == b # 0

----------------------------------------------------------------------------
(* inferb() *)

Init ==
    /\ pc = "calloc"
    /\ secret \in Slots
    /\ tbi \in Timebases
    /\ mach_time = 0
    /\ sumNull = FALSE
    /\ sum = [k \in Slots |-> 0]
    /\ bestIndex = Uninit
    /\ best = DBL_MAX
    /\ try = 0
    /\ iter = 0
    /\ i = 0
    /\ array = NULL
    /\ live = {}
    /\ cache = {}
    /\ timer = startTimer(0, tbi)
    /\ addr = NULL
    /\ elapsed = 0
    /\ start = 0
    /\ len = 0
    /\ hist = <<>>
    /\ decisions = <<>>
    /\ rounds = 0
    /\ allocFailed = FALSE
    /\ ret = Uninit

\* A cache maintenance instruction on an address of the unmapped page at 0
\* either raises a translation fault or completes without effect, as the
\* hardware defines; with a mapped address it completes.
AfterMaintenance(p, next) == IF p = NULL THEN {"fault", next} ELSE {next}

\* A load or store through p: the build targets a platform whose addresses
\* 0 .. ARRAY_SIZE are never mapped, so an access through NULL faults.
AfterAccess(p, next) == IF p = NULL THEN "fault" ELSE next

\* Ticks a timed access can take: noise lets any access measure fast or slow.
AccessTicks == {FastTicks, SlowTicks}

\* double *sum = calloc(NUM_CACHE_LINES, sizeof(double)); try = 0
Calloc ==
    /\ pc = "calloc"
    /\ \E ok \in BOOLEAN :
         /\ sumNull' = ~ok
         /\ allocFailed' = (allocFailed \/ ~ok)
    /\ sum' = [k \in Slots |-> 0]
    /\ try' = 0
    /\ pc' = "for_try"
    /\ UNCHANGED <<elapsed, addr, secret, tbi, mach_time, bestIndex, best, iter, i, array, live,
                   cache, timer, start, len, hist, decisions, rounds, ret>>

\* for (try...; try < RETRIES_IF_ZERO; ...)
ForTry ==
    /\ pc = "for_try"
    /\ IF TryCond(try)
       THEN iter' = 0 /\ pc' = "for_iter"
       ELSE iter' = iter /\ pc' = "return"
    /\ UNCHANGED <<elapsed, addr, secret, tbi, mach_time, sumNull, sum, bestIndex, best, try, i,
                   array, live, cache, timer, start, len, hist, decisions, rounds,
                   allocFailed, ret>>

\* for (iter...; iter < ITERATIONS; ...)
ForIter ==
    /\ pc = "for_iter"
    /\ pc' = IF iter < ITERATIONS THEN "malloc" ELSE "decide"
    /\ UNCHANGED <<elapsed, addr, secret, tbi, mach_time, sumNull, sum, bestIndex, best, try, iter,
                   i, array, live, cache, timer, start, len, hist, decisions, rounds,
                   allocFailed, ret>>

\* array = malloc(ARRAY_SIZE).  The new block's lines may or may not be cached.
Malloc ==
    /\ pc = "malloc"
    /\ \E p \in MallocResults(live) :
         /\ array' = p
         /\ live' = IF p = NULL THEN live ELSE live \cup {Cardinality(live)}
         /\ allocFailed' = (allocFailed \/ p = NULL)
         /\ \E warm \in IF p = NULL THEN {{}} ELSE {{}, SlotLines(p)} :
              cache' = cache \cup warm
    /\ hist' = <<"malloc">>
    /\ pc' = "flush"
    /\ UNCHANGED <<elapsed, addr, secret, tbi, mach_time, sumNull, sum, bestIndex, best, try, iter,
                   i, timer, start, len, decisions, rounds, ret>>

\* flush_cache_relaxed(array, ARRAY_SIZE)
Flush ==
    /\ pc = "flush"
    /\ start' = array
    /\ len' = ARRAY_SIZE
    /\ cache' = flush_cache_relaxed(cache, start', len')
    /\ hist' = Append(hist, "evict")
    /\ pc' \in AfterMaintenance(array, "touch")
    /\ UNCHANGED <<elapsed, addr, secret, tbi, mach_time, sumNull, sum, bestIndex, best, try, iter,
                   i, array, live, timer, decisions, rounds, allocFailed, ret>>

\* array[(*addr)++].cacheLine
Touch_postIncrement ==
    /\ pc = "touch"
    /\ cache' = IF array = NULL THEN cache
                ELSE cache \cup {LineOf(SlotAddr(array, secret))}
    /\ addr' = SlotAddr(array, secret)
    /\ secret' = (secret + 1) % (UINT8_MAX + 1)
    /\ hist' = Append(hist, "touch")
    /\ i' = 0
    /\ pc' = AfterAccess(array, "for_i")
    /\ UNCHANGED <<elapsed, tbi, mach_time, sumNull, sum, bestIndex, best, try, iter,
                   array, live, timer, start, len, decisions, rounds, allocFailed,
                   ret>>

\* array[*addr].cacheLine; i = 0
Touch ==
    /\ pc = "touch"
    /\ cache' = IF array = NULL THEN cache
                ELSE cache \cup {LineOf(SlotAddr(array, secret))}
    /\ addr' = SlotAddr(array, secret)
    /\ hist' = Append(hist, "touch")
    /\ i' = 0
    /\ pc' = AfterAccess(array, "for_i")
    /\ UNCHANGED <<elapsed, secret, tbi, mach_time, sumNull, sum, bestIndex, best, try, iter,
                   array, live, timer, start, len, decisions, rounds, allocFailed,
                   ret>>

\* for (i...; i < NUM_CACHE_LINES; ...), and iter++ when the loop ends
ForI ==
    /\ pc = "for_i"
    /\ IF i < NUM_CACHE_LINES
       THEN pc' = "startTimer" /\ UNCHANGED <<iter, rounds>>
       ELSE pc' = "for_iter" /\ iter' = iter + 1 /\ rounds' = rounds + 1
    /\ UNCHANGED <<elapsed, addr, secret, tbi, mach_time, sumNull, sum, bestIndex, best, try, i,
                   array, live, cache, timer, start, len, hist, decisions,
                   allocFailed, ret>>

\* const timer_t start = startTimer();
StartTimer ==
    /\ pc = "startTimer"
    /\ timer' = startTimer(mach_time, tbi)
    /\ hist' = hist \o <<"timebase", "barrier", "tick">>
    /\ pc' = "access"
    /\ UNCHANGED <<elapsed, addr, secret, tbi, mach_time, sumNull, sum, bestIndex, best, try, iter,
                   i, array, live, cache, start, len, decisions, rounds,
                   allocFailed, ret>>

\* array[i].cacheLine, which takes FastTicks or SlowTicks ticks
Access ==
    /\ pc = "access"
    /\ \E dt \in AccessTicks : mach_time' = mach_time + dt
    /\ cache' = IF array = NULL THEN cache
                ELSE cache \cup {LineOf(SlotAddr(array, i))}
    /\ addr' = SlotAddr(array, i)
    /\ hist' = Append(hist, "access")
    /\ pc' = AfterAccess(array, "timeElapsed")
    /\ UNCHANGED <<elapsed, secret, tbi, sumNull, sum, bestIndex, best, try, iter, i, array,
                   live, timer, start, len, decisions, rounds, allocFailed, ret>>

\* sum[0] += timeElapsed(&start); i++
TimeElapsed_wrongEntry ==
    /\ pc = "timeElapsed"
    /\ hist' = hist \o <<"barrier", "tick", "add">>
    /\ IF sumNull
       THEN pc' = "fault" /\ UNCHANGED <<sum, i>>
       ELSE /\ pc' = "for_i"
            /\ sum' = [sum EXCEPT ![0] = @ + timeElapsed(timer, mach_time)]
            /\ i' = i + 1
    /\ UNCHANGED <<elapsed, addr, secret, tbi, mach_time, sumNull, bestIndex, best,
                   try, iter, array, live, cache, timer, start, len, decisions,
                   rounds, allocFailed, ret>>

\* sum[i] += timeElapsed(&start); i++
TimeElapsed ==
    /\ pc = "timeElapsed"
    /\ hist' = hist \o <<"barrier", "tick", "add">>
    /\ IF sumNull
       THEN pc' = "fault" /\ UNCHANGED <<sum, i>>
       ELSE /\ pc' = "for_i"
            /\ sum' = [sum EXCEPT ![i] = @ + timeElapsed(timer, mach_time)]
            /\ i' = i + 1
    /\ UNCHANGED <<elapsed, addr, secret, tbi, mach_time, sumNull, bestIndex, best, try, iter,
                   array, live, cache, timer, start, len, decisions, rounds,
                   allocFailed, ret>>

\* best = DBL_MAX; the scan for the quickest cache line, over n entries of sum
DecideOver(n) ==
    /\ pc = "decide"
    /\ LET r == FindQuickest(sum, n, 0, bestIndex, DBL_MAX)
       IN  /\ bestIndex' = r.bestIndex
           /\ best' = r.best
           /\ decisions' = Append(decisions, r.bestIndex)
    /\ i' = n
    /\ pc' = "check"
    /\ UNCHANGED <<elapsed, addr, secret, tbi, mach_time, sumNull, sum, try, iter, array, live,
                   cache, timer, start, len, hist, rounds, allocFailed, ret>>

Decide == DecideOver(NUM_CACHE_LINES)

\* if (bestIndex != 0) break; otherwise try++
Check ==
    /\ pc = "check"
    /\ IF ShouldBreak(bestIndex)
       THEN pc' = "return" /\ try' = try
       ELSE pc' = "for_try" /\ try' = try + 1
    /\ UNCHANGED <<elapsed, addr, secret, tbi, mach_time, sumNull, sum, bestIndex, best, iter, i,
                   array, live, cache, timer, start, len, hist, decisions, rounds,
                   allocFailed, ret>>

\* return bestIndex;
Return ==
    /\ pc = "return"
    /\ ret' = bestIndex
    /\ pc' = "done"
    /\ UNCHANGED <<elapsed, addr, secret, tbi, mach_time, sumNull, sum, bestIndex, best, try, iter,
                   i, array, live, cache, timer, start, len, hist, decisions,
                   rounds, allocFailed>>

Next ==
    \/ Calloc
    \/ ForTry
    \/ ForIter
    \/ Malloc
    \/ Flush
    \/ Touch
    \/ ForI
    \/ StartTimer
    \/ Access
    \/ TimeElapsed
    \/ Decide
    \/ Check
    \/ Return

Spec == Init /\ [][Next]_vars

\* The program is one thread that runs every statement to completion.
LiveSpec == Spec /\ WF_vars(Next)

----------------------------------------------------------------------------
(* The decision as a function of the sample vector: the scan applied to     *)
(* every vector of DecideSlots entries drawn from 0..MaxSample.             *)

InitDecide ==
    /\ pc = "decide"
    /\ sum \in [0 .. (DecideSlots - 1) -> 0 .. MaxSample]
    /\ secret = 0
    /\ tbi \in Timebases
    /\ mach_time = 0
    /\ sumNull = FALSE
    /\ bestIndex = Uninit
    /\ best = DBL_MAX
    /\ try = 0
    /\ iter = ITERATIONS
    /\ i = 0
    /\ array = NULL
    /\ live = {}
    /\ cache = {}
    /\ timer = startTimer(0, tbi)
    /\ addr = NULL
    /\ elapsed = 0
    /\ start = 0
    /\ len = 0
    /\ hist = <<>>
    /\ decisions = <<>>
    /\ rounds = 0
    /\ allocFailed = FALSE
    /\ ret = Uninit

NextDecide == DecideOver(DecideSlots)

SpecDecide == InitDecide /\ [][NextDecide]_vars

----------------------------------------------------------------------------
(* flush_cache_relaxed as a function of its arguments: the call applied to  *)
(* every start in 0..MaxStart and len in 0..MaxFlushLen, on a cache that    *)
(* holds every line of the range and its neighbours.                        *)

InitFlush ==
    /\ pc = "flush_call"
    /\ addr = NULL
    /\ elapsed = 0
    /\ start \in 0 .. MaxStart
    /\ len \in 0 .. MaxFlushLen
    /\ cache = 0 .. (LineOf(MaxStart + MaxFlushLen) + 1)
    /\ secret = 0
    /\ tbi \in Timebases
    /\ mach_time = 0
    /\ sumNull = FALSE
    /\ sum = [k \in Slots |-> 0]
    /\ bestIndex = Uninit
    /\ best = DBL_MAX
    /\ try = 0
    /\ iter = 0
    /\ i = 0
    /\ array = NULL
    /\ live = {}
    /\ timer = startTimer(0, tbi)
    /\ hist = <<>>
    /\ decisions = <<>>
    /\ rounds = 0
    /\ allocFailed = FALSE
    /\ ret = Uninit

\* flush_cache_relaxed(start, len)
FlushCall ==
    /\ pc = "flush_call"
    /\ cache' = flush_cache_relaxed(cache, start, len)
    /\ pc' = "flushed"
    /\ UNCHANGED <<elapsed, addr, secret, tbi, mach_time, sumNull, sum, bestIndex, best, try, iter,
                   i, array, live, timer, start, len, hist, decisions, rounds,
                   allocFailed, ret>>

NextFlush == FlushCall

SpecFlush == InitFlush /\ [][NextFlush]_vars

----------------------------------------------------------------------------
(* The layout of the probe array at its size in the source: the address of   *)
(* the distinguishing byte of each of the UINT8_MAX + 1 slots, in index      *)
(* order, for every base address HeapStart + 0..MaxBaseOffset; cache holds   *)
(* the lines of the slots placed so far.                                     *)

\* NUM_CACHE_LINES of the source
LayoutSlots == UINT8_MAX + 1

\* ARRAY_SIZE of the source
LayoutSize == LayoutSlots * SPACING

InitLayout ==
    /\ pc = "layout"
    /\ array \in { HeapStart + off : off \in 0 .. MaxBaseOffset }
    /\ i = 0
    /\ addr = NULL
    /\ elapsed = 0
    /\ cache = {}
    /\ secret = 0
    /\ tbi \in Timebases
    /\ mach_time = 0
    /\ sumNull = FALSE
    /\ sum = [k \in Slots |-> 0]
    /\ bestIndex = Uninit
    /\ best = DBL_MAX
    /\ try = 0
    /\ iter = 0
    /\ live = {}
    /\ timer = startTimer(0, tbi)
    /\ start = 0
    /\ len = 0
    /\ hist = <<>>
    /\ decisions = <<>>
    /\ rounds = 0
    /\ allocFailed = FALSE
    /\ ret = Uninit

\* &array[i].cacheLine and the line that holds it; i++
LayoutSlot ==
    /\ pc = "layout"
    /\ i < LayoutSlots
    /\ addr' = SlotAddr(array, i)
    /\ cache' = cache \cup {LineOf(addr')}
    /\ i' = i + 1
    /\ UNCHANGED <<elapsed, pc, secret, tbi, mach_time, sumNull, sum, bestIndex, best, try,
                   iter, array, live, timer, start, len, hist, decisions, rounds,
                   allocFailed, ret>>

NextLayout == LayoutSlot

SpecLayout == InitLayout /\ [][NextLayout]_vars

----------------------------------------------------------------------------
(* A timer that is started once and queried repeatedly while the tick        *)
(* counter advances, for the timebases 1/1 and 125/3.                        *)

TimerTimebases == Timebases \cup { [numer |-> 1, denom |-> 1] }

InitTimer ==
    /\ pc = "timing"
    /\ tbi \in TimerTimebases
    /\ mach_time \in 0 .. MaxStartTick
    /\ timer = startTimer(mach_time, tbi)
    /\ elapsed = 0
    /\ addr = NULL
    /\ cache = {}
    /\ array = NULL
    /\ i = 0
    /\ secret = 0
    /\ sumNull = FALSE
    /\ sum = [k \in Slots |-> 0]
    /\ bestIndex = Uninit
    /\ best = DBL_MAX
    /\ try = 0
    /\ iter = 0
    /\ live = {}
    /\ start = 0
    /\ len = 0
    /\ hist = <<>>
    /\ decisions = <<>>
    /\ rounds = 0
    /\ allocFailed = FALSE
    /\ ret = Uninit

\* The tick counter advances by one.
TimerTick ==
    /\ pc = "timing"
    /\ mach_time < timer.start + MaxElapsedTicks
    /\ mach_time' = mach_time + 1
    /\ UNCHANGED <<pc, secret, tbi, sumNull, sum, bestIndex, best, try, iter, i,
                   array, live, cache, timer, elapsed, addr, start, len, hist,
                   decisions, rounds, allocFailed, ret>>

\* timeElapsed(&timer)
TimerQuery ==
    /\ pc = "timing"
    /\ elapsed' = timeElapsed(timer, mach_time)
    /\ UNCHANGED <<pc, secret, tbi, mach_time, sumNull, sum, bestIndex, best, try,
                   iter, i, array, live, cache, timer, addr, start, len, hist,
                   decisions, rounds, allocFailed, ret>>

NextTimer ==
    \/ TimerTick
    \/ TimerQuery

SpecTimer == InitTimer /\ [][NextTimer]_vars

----------------------------------------------------------------------------
(* The indices of one measurement round and one scan at the source's size of *)
(* UINT8_MAX + 1 slots, for every secret 0..UINT8_MAX: the secret-dependent  *)
(* access, the timed access of every slot (FastTicks on the slot of the      *)
(* secret, SlowTicks on the others) and the scan of the resulting sums.      *)

InitIndex ==
    /\ pc = "index_touch"
    /\ secret \in 0 .. UINT8_MAX
    /\ array \in { HeapStart + off : off \in MallocOffsets }
    /\ sum = [k \in 0 .. (LayoutSlots - 1) |-> 0]
    /\ i = 0
    /\ addr = NULL
    /\ elapsed = 0
    /\ cache = {}
    /\ tbi \in Timebases
    /\ mach_time = 0
    /\ sumNull = FALSE
    /\ bestIndex = Uninit
    /\ best = DBL_MAX
    /\ try = 0
    /\ iter = 0
    /\ live = {0}
    /\ timer = startTimer(0, tbi)
    /\ start = 0
    /\ len = 0
    /\ hist = <<>>
    /\ decisions = <<>>
    /\ rounds = 0
    /\ allocFailed = FALSE
    /\ ret = Uninit

\* array[*addr].cacheLine; i = 0
IndexTouch ==
    /\ pc = "index_touch"
    /\ addr' = SlotAddr(array, secret)
    /\ i' = 0
    /\ pc' = "index_scan"
    /\ UNCHANGED <<elapsed, secret, tbi, mach_time, sumNull, sum, bestIndex, best,
                   try, iter, array, live, cache, timer, start, len, hist,
                   decisions, rounds, allocFailed, ret>>

\* start = startTimer(); array[i].cacheLine; sum[i] += timeElapsed(&start); i++
IndexAccess ==
    /\ pc = "index_scan"
    /\ i < LayoutSlots
    /\ timer' = startTimer(mach_time, tbi)
    /\ addr' = SlotAddr(array, i)
    /\ mach_time' = mach_time + (IF i = secret THEN FastTicks ELSE SlowTicks)
    /\ sum' = [sum EXCEPT ![i] = @ + timeElapsed(timer', mach_time')]
    /\ i' = i + 1
    /\ UNCHANGED <<elapsed, pc, secret, tbi, sumNull, bestIndex, best, try, iter,
                   array, live, cache, start, len, hist, decisions, rounds,
                   allocFailed, ret>>

\* the timing loop ends; best = DBL_MAX; i = 0
IndexScanEnd ==
    /\ pc = "index_scan"
    /\ ~(i < LayoutSlots)
    /\ best' = DBL_MAX
    /\ i' = 0
    /\ pc' = "index_decide"
    /\ UNCHANGED <<elapsed, addr, secret, tbi, mach_time, sumNull, sum, bestIndex,
                   try, iter, array, live, cache, timer, start, len, hist,
                   decisions, rounds, allocFailed, ret>>

\* if (sum[i] < best) { best = sum[i]; bestIndex = i; }  i++
IndexDecideStep ==
    /\ pc = "index_decide"
    /\ i < LayoutSlots
    /\ LET r == FindQuickest(sum, i + 1, i, bestIndex, best)
       IN  /\ bestIndex' = r.bestIndex
           /\ best' = r.best
    /\ i' = i + 1
    /\ UNCHANGED <<elapsed, addr, pc, secret, tbi, mach_time, sumNull, sum, try,
                   iter, array, live, cache, timer, start, len, hist, decisions,
                   rounds, allocFailed, ret>>

\* the scan ends
IndexDecideEnd ==
    /\ pc = "index_decide"
    /\ ~(i < LayoutSlots)
    /\ decisions' = Append(decisions, bestIndex)
    /\ pc' = "check"
    /\ UNCHANGED <<elapsed, addr, secret, tbi, mach_time, sumNull, sum, bestIndex,
                   best, try, iter, i, array, live, cache, timer, start, len,
                   hist, rounds, allocFailed, ret>>

NextIndex ==
    \/ IndexTouch
    \/ IndexAccess
    \/ IndexScanEnd
    \/ IndexDecideStep
    \/ IndexDecideEnd

SpecIndex == InitIndex /\ [][NextIndex]_vars

----------------------------------------------------------------------------
(* Claims *)

Last(q) == q[Len(q)]

HasEvent(e) == \E k \in 1 .. Len(hist) : hist[k] = e

\* C1 (early exit on signal): no attempt follows an attempt whose decision is
\* non-zero. Every decision before the last is 0; once the last decision is
\* non-zero inferb only tests and returns it, with no further measurement
\* round; and the value returned is that decision.
C1_EarlyExit ==
    /\ \A k \in 1 .. (Len(decisions) - 1) : decisions[k] = 0
    /\ (Len(decisions) > 0 /\ Last(decisions) # 0) =>
          /\ pc \in {"check", "return", "done"}
          /\ rounds = Len(decisions) * ITERATIONS
          /\ (pc = "done" => ret = Last(decisions))

\* Decisions 0 then non-zero: returned after exactly 2 attempts, with a third
\* attempt still allowed by the retry ceiling.
C1_Witness ==
    /\ pc = "done"
    /\ RETRIES_IF_ZERO > 2
    /\ Len(decisions) = 2
    /\ decisions[1] = 0
    /\ decisions[2] # 0
    /\ ret = decisions[2]
    /\ rounds = 2 * ITERATIONS

\* C2 (retry termination): never more than RETRIES_IF_ZERO attempts are made,
\* and when inferb returns with every decision 0 it has made exactly
\* RETRIES_IF_ZERO attempts of ITERATIONS rounds each and returns 0.
C2_RetryTermination ==
    /\ Len(decisions) <= RETRIES_IF_ZERO
    /\ rounds <= RETRIES_IF_ZERO * ITERATIONS
    /\ (pc = "done" /\ \A k \in 1 .. Len(decisions) : decisions[k] = 0) =>
          /\ Len(decisions) = RETRIES_IF_ZERO
          /\ rounds = RETRIES_IF_ZERO * ITERATIONS
          /\ ret = 0

C2_Witness ==
    /\ pc = "done"
    /\ ret = 0
    /\ Len(decisions) = RETRIES_IF_ZERO
    /\ \A k \in 1 .. Len(decisions) : decisions[k] = 0
    /\ rounds = RETRIES_IF_ZERO * ITERATIONS

\* C3 (decision tie-break): after the scan of a sample vector, bestIndex is the
\* lowest index whose entry equals the minimum of the vector: no entry is
\* smaller than the selected one and every entry before it is strictly larger.
C3_TieBreak ==
    pc = "check" =>
      /\ bestIndex \in DOMAIN sum
      /\ \A k \in DOMAIN sum : sum[bestIndex] <= sum[k]
      /\ \A k \in DOMAIN sum : k < bestIndex => sum[k] > sum[bestIndex]

\* Slots 5 and 9 tied at the global minimum, every other slot slower: 5 wins.
C3_Witness ==
    /\ pc = "check"
    /\ {5, 9} \subseteq DOMAIN sum
    /\ sum[5] = sum[9]
    /\ \A k \in DOMAIN sum \ {5, 9} : sum[k] > sum[5]
    /\ bestIndex = 5

\* C4 (sample vector zero at the start of every attempt): whenever an attempt
\* is about to start its first measurement round, every entry of sum is 0.
C4_SumZeroAtAttemptStart ==
    (pc = "for_iter" /\ iter = 0) => \A k \in Slots : sum[k] = 0

\* C5 (termination): inferb makes at most RETRIES_IF_ZERO attempts; it is done
\* only after an attempt whose decision is non-zero or after RETRIES_IF_ZERO
\* attempts, returning the decision of the last attempt made.
C5_DoneOnly ==
    /\ Len(decisions) <= RETRIES_IF_ZERO
    /\ pc = "done" =>
          /\ Len(decisions) >= 1
          /\ Last(decisions) # 0 \/ Len(decisions) = RETRIES_IF_ZERO
          /\ ret = Last(decisions)

\* C5 (termination): C5_DoneOnly always holds, and every run whose allocations
\* all succeed reaches done, whatever the secret and the measured times.
C5_Terminates == []C5_DoneOnly /\ <>(pc = "done" \/ allocFailed)

\* Done on exhausting the retries, with a non-zero decision on the last one.
C5_Witness ==
    /\ pc = "done"
    /\ ~allocFailed
    /\ Len(decisions) = RETRIES_IF_ZERO
    /\ \A k \in 1 .. (Len(decisions) - 1) : decisions[k] = 0
    /\ ret = Last(decisions)
    /\ ret # 0

\* C6 (eviction coverage): after flush_cache_relaxed(start, len) no cache line
\* holding a byte of [start, start+len) is left in the cache.
C6_EvictionCoverage ==
    pc = "flushed" => LinesTouching(start, len) \cap cache = {}

\* C7 (allocation failure is fatal): once an allocation has returned NULL,
\* inferb issues no eviction, no secret-dependent access and no timed access.
C7_AllocFailureFatal ==
    allocFailed => ~(HasEvent("evict") \/ HasEvent("touch") \/ HasEvent("access"))

\* C8 (timer barriers): every read of the tick counter is preceded by a full
\* barrier and followed by one before the next event.
C8_TimerBarriers ==
    \A k \in 1 .. Len(hist) :
        hist[k] = "tick" =>
          /\ k > 1 /\ hist[k - 1] = "barrier"
          /\ k < Len(hist) => hist[k + 1] = "barrier"

\* C9 (eviction ordering): in every round a full barrier lies between the
\* eviction of the probe array and the secret-dependent access.
C9_EvictionOrdering ==
    \A k \in 1 .. Len(hist) :
        hist[k] = "touch" =>
          \E e \in 1 .. (k - 1) :
             /\ hist[e] = "evict"
             /\ \E j \in (e + 1) .. (k - 1) : hist[j] = "barrier"

\* C10 (probe-array lifecycle): at most one probe array is live at any point
\* of a run and none is live when inferb has returned.
C10_ProbeArrayLifecycle ==
    /\ Cardinality(live) <= 1
    /\ pc = "done" => live = {}

\* C11 (layout invariant): the distinguishing bytes of the slots placed so far
\* lie in as many different cache lines as there are slots and inside
\* [array, array + ARRAY_SIZE), whatever the base address.
C11_LayoutState ==
    pc = "layout" =>
      /\ Cardinality(cache) = i
      /\ i >= 1 => (array <= addr /\ addr < array + LayoutSize)

\* C11 (layout invariant): C11_LayoutState always holds, and each slot's
\* distinguishing byte is exactly SPACING bytes after the previous slot's.
C11_Layout ==
    /\ []C11_LayoutState
    /\ [][(pc = "layout" /\ i >= 1) => addr' = addr + SPACING]_vars

\* All 256 slots placed from a base that is not cache-line aligned.
C11_Witness ==
    /\ pc = "layout"
    /\ i = LayoutSlots
    /\ array % CACHE_LINE_SIZE # 0
    /\ Cardinality(cache) = UINT8_MAX + 1
    /\ addr = array + UINT8_MAX * SPACING

\* Every timed access made so far measured FastTicks on the slot indexed by
\* the secret and SlowTicks on every other slot: with two tick values this is
\* the ideal channel, the warmed slot strictly faster in every round.
IdealChannel ==
    /\ sum[secret] = rounds * FastTicks * tbi.numer
    /\ \A k \in Slots \ {secret} : sum[k] = rounds * SlowTicks * tbi.numer

\* C12 (boundary values under an ideal channel): when inferb returns after
\* rounds in which the warmed slot always measured strictly faster than every
\* other slot, it returns the secret byte, for every secret in the slot range.
C12_IdealChannelReturnsSecret ==
    (pc = "done" /\ IdealChannel) => ret = secret

\* The top of the slot range (255 in the source) is returned over an ideal channel.
C12_Witness ==
    /\ pc = "done"
    /\ IdealChannel
    /\ rounds >= ITERATIONS
    /\ secret = NUM_CACHE_LINES - 1
    /\ ret = NUM_CACHE_LINES - 1

\* Secret 0 over an ideal channel: 0 is returned once the retries are used up.
C12_WitnessZero ==
    /\ pc = "done"
    /\ IdealChannel
    /\ secret = 0
    /\ ret = 0
    /\ rounds = RETRIES_IF_ZERO * ITERATIONS

Count(e) == Cardinality({ k \in 1 .. Len(hist) : hist[k] = e })

\* C13 (the secret is read-only): a round reads the secret for at most one
\* access, the one made before the timed scan, and that access addresses the
\* slot indexed by the secret.
C13_SecretUse ==
    /\ Count("touch") <= 1
    /\ HasEvent("access") => Count("touch") = 1
    /\ (Len(hist) > 0 /\ Last(hist) = "touch") => addr = SlotAddr(array, secret)

\* C13 (the secret is read-only): no step of inferb changes the byte at the
\* secret address, and C13_SecretUse always holds.
C13_SecretReadOnly == [][secret' = secret]_vars /\ []C13_SecretUse

\* inferb has returned after rounds that each touched the slot of a non-zero secret.
C13_Witness ==
    /\ pc = "done"
    /\ secret # 0
    /\ rounds >= ITERATIONS
    /\ Count("touch") = 1
    /\ (cache \cap SlotLines(array)) # {}

\* C14 (monotonic timer): a query leaves the handle (start tick and rate)
\* as it was, and each query of a handle returns at least what the query
\* before it returned, the tick counter never running backwards.
C14_MonotonicTimer ==
    [][pc = "timing" => (timer' = timer /\ elapsed' >= elapsed)]_vars

\* A query made some ticks after an earlier query that returned a positive
\* time, on the 125/3 timebase.
C14_Witness ==
    /\ pc = "timing"
    /\ tbi.numer = 125
    /\ elapsed > 0
    /\ elapsed < timeElapsed(timer, mach_time)
    /\ mach_time = timer.start + MaxElapsedTicks

\* The events of one timed access, and of one whole measurement round.
TimedAccessEvents == <<"timebase", "barrier", "tick", "access", "barrier", "tick", "add">>

RECURSIVE Repeat(_, _)
Repeat(q, n) == IF n = 0 THEN <<>> ELSE q \o Repeat(q, n - 1)

RoundEvents == <<"malloc", "evict", "touch">> \o Repeat(TimedAccessEvents, NUM_CACHE_LINES)

\* C15 (round structure): the events of a round are so far those of one
\* allocation, one eviction, one secret-dependent access and the timed
\* accesses in that order; the timed access about to be made or just made is
\* that of slot i, after exactly i earlier ones; and the scan for the quickest
\* slot runs only when all ITERATIONS rounds of the attempt are complete.
C15_RoundState ==
    /\ Len(hist) <= Len(RoundEvents)
    /\ hist = SubSeq(RoundEvents, 1, Len(hist))
    /\ pc = "access" => (i \in Slots /\ Count("access") = i)
    /\ pc = "timeElapsed" =>
          (i \in Slots /\ Count("access") = i + 1 /\ addr = SlotAddr(array, i))
    /\ pc \in {"decide", "check"} =>
          (iter = ITERATIONS /\ hist = RoundEvents)
    /\ rounds >= Len(decisions) * ITERATIONS
    /\ pc = "check" => rounds = Len(decisions) * ITERATIONS

\* The step that adds an elapsed time changes the entry of slot i alone and
\* moves on to slot i + 1.
C15_AddStep ==
    (pc = "timeElapsed" /\ pc' = "for_i") =>
       /\ i' = i + 1
       /\ sum'[i] > sum[i]
       /\ \A k \in Slots \ {i} : sum'[k] = sum[k]

\* C15 (round structure): C15_RoundState always holds and every step
\* satisfies C15_AddStep.
C15_RoundStructure == []C15_RoundState /\ [][C15_AddStep]_vars

\* An attempt decided right after its last round ran all its events.
C15_Witness ==
    /\ pc = "check"
    /\ hist = RoundEvents
    /\ rounds = ITERATIONS
    /\ Count("access") = NUM_CACHE_LINES
    /\ \A k \in Slots : sum[k] > 0

\* The slots of the current probe array whose distinguishing byte is cached.
WarmSlots == { k \in Slots : LineOf(SlotAddr(array, k)) \in cache }

\* C16 (every slot cold before the touch, one warm after): for the base the
\* allocator returned, aligned or not, no slot of the probe array is cached
\* when the secret-dependent access is about to be made, and right after it
\* the slot indexed by the secret is the only one cached.
C16_ColdThenOneWarm ==
    array # NULL =>
      /\ pc = "touch" => WarmSlots = {}
      /\ (pc = "for_i" /\ Last(hist) = "touch") => WarmSlots = {secret}

\* Right after the touch of a probe array whose base is not line aligned.
C16_Witness ==
    /\ pc = "for_i"
    /\ Last(hist) = "touch"
    /\ array # NULL
    /\ array % CACHE_LINE_SIZE # 0
    /\ WarmSlots = {secret}
    /\ rounds >= 1

\* C17 (bestIndex is written before it is read): whenever inferb is about to
\* test bestIndex against 0 or to return it, or has returned it, the scan has
\* assigned it: it holds a slot index whose sum is the best the scan kept,
\* below the DBL_MAX the scan starts from. The scan always finds an entry
\* below DBL_MAX to assign from.
C17_BestIndexAssigned ==
    /\ pc = "decide" => \E k \in Slots : sum[k] < DBL_MAX
    /\ pc \in {"check", "return", "done"} =>
          /\ bestIndex # Uninit
          /\ bestIndex \in Slots
          /\ best < DBL_MAX
          /\ best = sum[bestIndex]
          /\ Len(decisions) >= 1
    /\ pc = "done" => ret # Uninit

\* inferb has returned the index the scan of its last attempt assigned.
C17_Witness ==
    /\ pc = "done"
    /\ ret = bestIndex
    /\ ret \in Slots
    /\ best = sum[ret]
    /\ best < DBL_MAX
    /\ Len(decisions) = 1

\* C18 (every index is in range): the secret-dependent access and every timed
\* access address a byte inside [array, array + ARRAY_SIZE); the slot just
\* timed has an index in 0..UINT8_MAX that is an index of sum; and the index
\* the scan leaves in the 8-bit bestIndex is the index of the entry it
\* selected, the one strictly smallest sum, not a truncation of it.
C18_IndicesInRange ==
    /\ addr # NULL => (array <= addr /\ addr < array + LayoutSize)
    /\ (pc = "index_scan" /\ i >= 1) =>
          /\ (i - 1) \in 0 .. UINT8_MAX
          /\ (i - 1) \in DOMAIN sum
          /\ addr = SlotAddr(array, i - 1)
          /\ sum[i - 1] > 0
    /\ (pc = "index_decide" /\ i >= 1) =>
          /\ (i - 1) \in DOMAIN sum
          /\ bestIndex \in 0 .. (i - 1)
          /\ bestIndex = (IF secret < i THEN secret ELSE 0)
          /\ best = sum[bestIndex]
    /\ pc = "check" =>
          /\ bestIndex \in DOMAIN sum
          /\ bestIndex = secret
          /\ \A k \in DOMAIN sum \ {bestIndex} : sum[k] > sum[bestIndex]

\* Secret 255: slot 255 was accessed last and the scan selected index 255.
C18_Witness ==
    /\ pc = "check"
    /\ secret = UINT8_MAX
    /\ bestIndex = UINT8_MAX
    /\ i = UINT8_MAX + 1
    /\ addr = array + UINT8_MAX * SPACING
    /\ Len(decisions) = 1

====
